---------------------------- MODULE Spec2Model ----------------------------
(***************************************************************************)
(* Model of the agentic RAG system: the fallback search chain              *)
(* (AgenticRAGSystem._smart_search), key-term extraction                   *)
(* (_extract_key_terms), the query pipeline (AgenticRAGSystem.query) and   *)
(* index setup (AgenticRAGSystem.setup_index with the MeilisearchClient    *)
(* calls it makes).  Python strings are TLA+ strings; the Search Gateway   *)
(* (Meilisearch) and the Completion Gateway (OpenRouter) are external and  *)
(* answer every call nondeterministically.                                 *)
(***************************************************************************)
EXTENDS Integers, Sequences, FiniteSets, TLC

(***************************************************************************)
(* Bounds of the model.                                                    *)
(***************************************************************************)
\* longest query, in words, of the key-term extraction specification
MaxWords == 2
\* rows of the data file
DataRows == 101
\* most documents one search result carries
MaxHits == 2
\* largest max_results argument a caller passes to query (0 is None)
MaxResultsArg == 1

(***************************************************************************)
(* Python values.                                                          *)
(***************************************************************************)
\* Python's None where a string is expected (filters, an unset handle)
None == "<None>"

(***************************************************************************)
(* str methods used by the code: lower(), split(), the in operator,        *)
(* " ".join().                                                             *)
(***************************************************************************)
UpperChars == "ABCDEFGHIJKLMNOPQRSTUVWXYZ"
LowerChars == "abcdefghijklmnopqrstuvwxyz"

Char(s, i) == SubSeq(s, i, i)

LowerChar(c) ==
    IF \E i \in 1..Len(UpperChars) : Char(UpperChars, i) = c
    THEN Char(LowerChars, CHOOSE i \in 1..Len(UpperChars) : Char(UpperChars, i) = c)
    ELSE c

RECURSIVE Lower(_)
Lower(s) ==
    IF Len(s) = 0 THEN ""
    ELSE LowerChar(Char(s, 1)) \o Lower(SubSeq(s, 2, Len(s)))

IsSpace(c) == c \in {" ", "\t", "\n"}

\* str.split() with no separator: runs of whitespace separate, no empty token
RECURSIVE SplitFrom(_, _, _)
SplitFrom(s, cur, acc) ==
    IF Len(s) = 0
    THEN IF cur = "" THEN acc ELSE Append(acc, cur)
    ELSE IF IsSpace(Char(s, 1))
         THEN SplitFrom(SubSeq(s, 2, Len(s)), "",
                        IF cur = "" THEN acc ELSE Append(acc, cur))
         ELSE SplitFrom(SubSeq(s, 2, Len(s)), cur \o Char(s, 1), acc)

Split(s) == SplitFrom(s, "", <<>>)

\* sub in s
Contains(sub, s) ==
    \E i \in 0..(Len(s) - Len(sub)) : SubSeq(s, i + 1, i + Len(sub)) = sub

\* sep.join(seq)
RECURSIVE Join(_, _)
Join(seq, sep) ==
    IF Len(seq) = 0 THEN ""
    ELSE IF Len(seq) = 1 THEN seq[1]
    ELSE seq[1] \o sep \o Join(Tail(seq), sep)

(***************************************************************************)
(* AgenticRAGSystem._extract_key_terms                                     *)
(***************************************************************************)
stop_words ==
    {"the", "a", "an", "and", "or", "but", "in", "on", "at", "to", "for",
     "of", "with", "by", "is", "are", "was", "were", "be", "been", "have",
     "has", "had", "do", "does", "did", "will", "would", "could", "should",
     "may", "might", "can", "what", "which", "where", "when", "why", "how",
     "show", "me", "find", "get", "top", "best", "highest", "lowest",
     "average", "total", "orders", "products", "items"}

\* a slip: the length filter lets tokens of two characters through
KeepTermShort(term) == Lower(term) \notin stop_words /\ Len(term) > 1

\* a slip: the stop-word test on the token as typed, not lowercased
KeepTermAsTyped(term) == term \notin stop_words /\ Len(term) > 2

\* the filter of the list comprehension
KeepTerm(term) == Lower(term) \notin stop_words /\ Len(term) > 2

RECURSIVE KeyTermsOf(_)
KeyTermsOf(terms) ==
    IF Len(terms) = 0 THEN <<>>
    ELSE (IF KeepTerm(Head(terms)) THEN <<Lower(Head(terms))>> ELSE <<>>)
         \o KeyTermsOf(Tail(terms))

_extract_key_terms(query) == KeyTermsOf(Split(query))


(***************************************************************************)
(* Configuration and data.                                                 *)
(***************************************************************************)
\* Config.MAX_SEARCH_RESULTS, the default of max_results
MAX_SEARCH_RESULTS == 2

\* two documents as EcommerceDataLoader.process_data shapes them
Doc1 ==
    [id |-> "order_0", order_id |-> "O-1", amount |-> 120, profit |-> 30,
     quantity |-> 2, category |-> "Furniture", sub_category |-> "Chairs",
     content |-> "Order O-1 contains 2 items of Chairs from Furniture category."]
Doc2 ==
    [id |-> "order_1", order_id |-> "O-2", amount |-> 40, profit |-> -5,
     quantity |-> 7, category |-> "Electronics", sub_category |-> "Phones",
     content |-> "Order O-2 contains 7 items of Phones from Electronics category."]
Docs == {Doc1, Doc2}

\* the hit lists a search may return: distinct documents, at most MaxHits
HitLists ==
    {h \in UNION {[1..n -> Docs] : n \in 0..MaxHits} :
        \A i, j \in 1..Len(h) : i # j => h[i] # h[j]}

\* the queries callers ask
Queries ==
    {"Furniture", "top selling items", "laptop sales", "Show me the profit",
     "no such data", "TOP Electronics order", "what is it", "",
     "top profit amount order item Electronics Furniture Clothing"}

Filters == {None, "category = Furniture"}

(***************************************************************************)
(* State.                                                                  *)
(***************************************************************************)
VARIABLES
    pc,              \* where the running operation stands
    user_query,      \* query(): user_query
    max_results,     \* _smart_search(): max_results
    filters,         \* _smart_search(): filters
    idx,             \* position in the term list of the running strategy
    results,         \* _smart_search(): results, the last search result
    search_results,  \* query(): search_results, what _smart_search returned
    response,        \* what query() returned
    raised,          \* the exception that left the running operation
    calls,           \* gateway calls of the running operation, in order
    index,           \* MeilisearchClient.index, the lazily created handle
    op,              \* the running operation: "none", "query" or "setup"
    setup_result,    \* what setup_index() returned
    stats,           \* the last dictionary get_index_stats() returned
    data,            \* EcommerceDataLoader.data: the loaded rows, or None
    documents,       \* setup_index(): documents, by row number
    batch_i,         \* add_documents(): i of the batch loop
    wait_time,       \* add_documents(): wait_time of the poll loop
    numberOfDocuments, \* Search Gateway: documents the index holds
    pending,         \* Search Gateway: highest row submitted, not yet indexed
    kq,              \* key-term extraction: the query
    kt,              \* key-term extraction: _extract_key_terms(kq)
    kt2,             \* key-term extraction: applied to " ".join(kt)
    ingested         \* history: an earlier setup_index run ingested and returned True

vars == <<pc, user_query, max_results, filters, idx, results, search_results,
          response, raised, calls, index, op, setup_result, stats,
          data, documents, batch_i, wait_time, numberOfDocuments, pending,
          kq, kt, kt2, ingested>>

\* the locals of query and _smart_search
queryVars == <<user_query, max_results, filters, idx, results, search_results,
               response>>

\* the locals of setup_index and add_documents
setupVars == <<setup_result, stats, documents, batch_i, wait_time>>

\* the Search Gateway's own state
gatewayVars == <<numberOfDocuments, pending>>

extractVars == <<kq, kt, kt2>>

\* what is remembered of the operations that have returned
historyVars == <<ingested>>

(***************************************************************************)
(* Gateway calls and their answers.                                        *)
(***************************************************************************)
\* a call that raised
Raise == [ok |-> FALSE, hits |-> <<>>, estimatedTotalHits |-> 0,
          processingTimeMs |-> 0, text |-> ""]
\* a call that returned nothing of interest
Ok == [ok |-> TRUE, hits |-> <<>>, estimatedTotalHits |-> 0,
       processingTimeMs |-> 0, text |-> ""]

\* the processingTimeMs the gateway reports for a search
ProcessingTimeMs == 3

\* what index.search may answer for a limit: an error, or up to limit hits of
\* the documents the index holds, with the gateway's counts
SearchAnswers(limit) ==
    {Raise} \cup
    {[ok |-> TRUE, hits |-> h,
      estimatedTotalHits |-> IF h = <<>> THEN 0 ELSE numberOfDocuments,
      processingTimeMs |-> ProcessingTimeMs, text |-> ""] :
        h \in {x \in HitLists : Len(x) <= limit /\ Len(x) <= numberOfDocuments}}

\* time.time(), counted from the start of the running operation: the clock
\* ticks once with every gateway call
Clock(log) == Len(log)

\* one entry of the call log
Call(name, q, limit, f, ans) ==
    [op |-> name, q |-> q, limit |-> limit, filters |-> f, ans |-> ans,
     docs |-> <<>>, strategy |-> "", temperature |-> None]

\* a call with no argument of interest
Plain(name, ans) == Call(name, "", 0, None, ans)

(***************************************************************************)
(* MeilisearchClient.get_or_create_index, create_index                     *)
(***************************************************************************)
Handle == "index:ecommerce"

\* client.index() returns the handle ("got"), or raises and create_index
\* creates the index ("created"), finds it ("exists") or fails ("error")
IndexOutcomes == {"got", "created", "exists", "error"}

\* a slip: the "already exists" branch of create_index keeps no handle
get_or_create_index_forgetful(out) ==
    [index |-> IF out \in {"error", "exists"} THEN index ELSE Handle,
     raised |-> out = "error"]

get_or_create_index(out) ==
    [index |-> IF out = "error" THEN index ELSE Handle,
     raised |-> out = "error"]

(***************************************************************************)
(* AgenticRAGSystem._smart_search: the terms each strategy searches        *)
(***************************************************************************)
\* a slip: the generic terms in another order
top_search_terms_reordered ==
    <<"item", "order", "amount", "profit", "Furniture", "Electronics", "Clothing">>

top_search_terms ==
    <<"order", "item", "amount", "profit", "Furniture", "Electronics", "Clothing">>
\* a slip: a category listed twice
categories_repeated == <<"Electronics", "Furniture", "Clothing", "Electronics">>

categories == <<"Electronics", "Furniture", "Clothing">>
business_terms ==
    <<"profit", "amount", "order", "item", "Furniture", "Electronics", "Clothing">>
\* a slip: the empty query in place of the match-all query
match_all_empty == ""

match_all == "*"

query_lower(query) == Lower(query)

\* if 'top' in query_lower
TopApplies(query) == Contains("top", query_lower(query))

\* the terms a strategy's loop issues a search for, in order
Terms(s, query) ==
    CASE s = "top" ->
            IF TopApplies(query) THEN top_search_terms ELSE <<>>
      [] s = "key" ->
            SelectSeq(_extract_key_terms(query), LAMBDA t : Len(t) > 2)
      [] s = "category" ->
            SelectSeq(categories, LAMBDA c : Contains(Lower(c), query_lower(query)))
      [] s = "business" ->
            SelectSeq(business_terms, LAMBDA t : Contains(Lower(t), query_lower(query)))

Strategies == <<"top", "key", "category", "business">>

Rank(s) == IF s = "direct" THEN 0 ELSE CHOOSE k \in 1..Len(Strategies) : Strategies[k] = s

\* where control stands after the search at (s, i) returned no hit: the next
\* term of the loop, else the first later loop with a term, else the tail
NextPos(s, i, query) ==
    IF s # "direct" /\ i < Len(Terms(s, query))
    THEN [pc |-> s, idx |-> i + 1]
    ELSE LET later == {k \in (Rank(s) + 1)..Len(Strategies) :
                          Terms(Strategies[k], query) # <<>>}
         IN  IF later = {}
             THEN [pc |-> "tail", idx |-> 1]
             ELSE [pc |-> Strategies[CHOOSE k \in later : \A m \in later : k <= m],
                   idx |-> 1]

\* a slip: a result counts as found only with more than one hit
HasHitsMoreThanOne(r) == Len(r.hits) > 1

\* if results['hits']: return results
HasHits(r) == r.hits # <<>>

\* a slip: search() swallows the gateway's error and returns no hits
RaisesNever(a) == FALSE

\* search(): "except Exception as e: ... raise" lets the gateway's error out
Raises(a) == ~a.ok

\* a slip: the top strategy searches with max_results, not twice as many
LimitOfPlain(s, mr) == mr

\* the limit a strategy passes to search
LimitOf(s, mr) == IF s = "top" THEN mr * 2 ELSE mr

(***************************************************************************)
(* AgenticRAGSystem.query: the response envelope                           *)
(***************************************************************************)
Placeholder ==
    "I couldn't find any relevant data to answer your question. Please try rephrasing your query."

NoResponse ==
    [query |-> None, answer |-> None, context |-> <<>>, search_time |-> 0,
     llm_time |-> 0, total_time |-> 0, sources |-> <<>>,
     search_stats |-> [total_hits |-> 0, processing_time_ms |-> 0]]

\* a slip: the empty branch reports the elapsed time as llm_time
EmptyResponseTimed(query, st, tt) ==
    [query |-> query, answer |-> Placeholder, context |-> <<>>,
     search_time |-> st, llm_time |-> tt, total_time |-> tt, sources |-> <<>>,
     search_stats |-> [total_hits |-> 0, processing_time_ms |-> 0]]

\* the return of the "if not search_results['hits']" branch
EmptyResponse(query, st, tt) ==
    [query |-> query, answer |-> Placeholder, context |-> <<>>,
     search_time |-> st, llm_time |-> 0, total_time |-> tt, sources |-> <<>>,
     search_stats |-> [total_hits |-> 0, processing_time_ms |-> 0]]

\* a slip: amount and profit change places
SourceSwapped(doc) ==
    [order_id |-> doc.order_id, category |-> doc.category,
     sub_category |-> doc.sub_category, amount |-> doc.profit,
     profit |-> doc.amount, content |-> doc.content]

\* one entry of sources
Source(doc) ==
    [order_id |-> doc.order_id, category |-> doc.category,
     sub_category |-> doc.sub_category, amount |-> doc.amount,
     profit |-> doc.profit, content |-> doc.content]

\* the loop "for doc in context_docs: sources.append(...)"
Sources(context_docs) == [i \in 1..Len(context_docs) |-> Source(context_docs[i])]

\* a slip: an empty completion text is replaced by the placeholder
FoundResponseDefaulted(query, sr, answer, st, lt, tt) ==
    [query |-> query,
     answer |-> IF answer = "" THEN Placeholder ELSE answer,
     context |-> sr.hits, search_time |-> st, llm_time |-> lt,
     total_time |-> tt, sources |-> Sources(sr.hits),
     search_stats |-> [total_hits |-> sr.estimatedTotalHits,
                       processing_time_ms |-> sr.processingTimeMs]]

\* result = {...} of the found path
FoundResponse(query, sr, answer, st, lt, tt) ==
    [query |-> query, answer |-> answer, context |-> sr.hits,
     search_time |-> st, llm_time |-> lt, total_time |-> tt,
     sources |-> Sources(sr.hits),
     search_stats |-> [total_hits |-> sr.estimatedTotalHits,
                       processing_time_ms |-> sr.processingTimeMs]]

(***************************************************************************)
(* OpenRouterClient.create_rag_prompt, generate_response                   *)
(***************************************************************************)
RECURSIVE ContextText(_, _)
ContextText(context, i) ==
    IF i > Len(context) THEN ""
    ELSE ToString(i) \o ". " \o context[i].content \o "\n"
         \o ContextText(context, i + 1)

SystemPrompt ==
    "You are an e-commerce data analyst. Answer questions concisely based on the provided order data. Be direct and factual."

create_rag_prompt(query, context) ==
    <<[role |-> "system", content |-> SystemPrompt],
      [role |-> "user",
       content |-> "Context Data:\n" \o ContextText(context, 1)
                   \o "\n\nUser Question: " \o query
                   \o "\n\nPlease provide a helpful answer based on the context data above."]>>

\* a slip: query leaves temperature at generate_response's default
QueryTemperatureDefault == "0.7"

\* temperature=0.3 of query's generate_response call, as written
QueryTemperature == "0.3"

\* a slip: generate_response swallows the gateway's error and answers ""
CompletionRaisesNever(a) == FALSE

\* generate_response(): "except Exception as e: ... raise"
CompletionRaises(a) == ~a.ok

\* what chat.completions.create may answer: an error or a text
CompletionAnswers ==
    {Raise} \cup
    {[Ok EXCEPT !.text = t] :
        t \in {"", "Furniture orders made a profit of 30.", Placeholder}}

(***************************************************************************)
(* MeilisearchClient.get_index_stats                                       *)
(***************************************************************************)
\* no dictionary read yet
NoStats == [none |-> TRUE]

\* dict.get(key, default)
Get(d, key, default) == IF key \in DOMAIN d THEN d[key] ELSE default

\* what index.get_stats() may answer: an error, or the index's counts as an
\* object with to_dict(), an object with attributes (__dict__), an object
\* with neither whose attributes getattr reads, or a plain dict
StatsShapes == {"raise", "to_dict", "attrs", "slots", "dict"}

StatsAnswers ==
    {[shape |-> sh, n |-> numberOfDocuments, indexing |-> (pending > 0)] :
        sh \in StatsShapes}

DefaultStats ==
    [numberOfDocuments |-> 0, databaseSize |-> 0, indexSize |-> 0, updateId |-> 0]

\* a slip: the except branch reports the count the index holds
get_index_stats_counting(raw) ==
    IF raw.shape = "to_dict"
    THEN [numberOfDocuments |-> raw.n, isIndexing |-> raw.indexing]
    ELSE IF raw.shape = "attrs"
    THEN [number_of_documents |-> raw.n, is_indexing |-> raw.indexing]
    ELSE [DefaultStats EXCEPT !.numberOfDocuments = raw.n]

\* the dictionary get_index_stats returns for the gateway's answer raw
get_index_stats(raw) ==
    CASE raw.shape = "raise" -> DefaultStats
      [] raw.shape = "to_dict" ->
            [numberOfDocuments |-> raw.n, isIndexing |-> raw.indexing]
      [] raw.shape = "attrs" ->
            [number_of_documents |-> raw.n, is_indexing |-> raw.indexing]
      [] raw.shape = "slots" ->
            [DefaultStats EXCEPT !.numberOfDocuments = raw.n]
      [] raw.shape = "dict" -> DefaultStats

(***************************************************************************)
(* Actions of query and _smart_search.                                     *)
(***************************************************************************)
\* query(user_query, max_results, filters) is called
QueryStart ==
    /\ pc = "idle"
    /\ \E q \in Queries, mr \in 0..MaxResultsArg, f \in Filters :
          /\ user_query' = q
          /\ max_results' = (IF mr # 0 THEN mr ELSE MAX_SEARCH_RESULTS)
          /\ filters' = f
    /\ op' = "query"
    /\ pc' = "direct"
    /\ idx' = 1
    /\ calls' = <<>>
    /\ UNCHANGED <<results, search_results, response, raised,
                   index, data, setupVars, gatewayVars, extractVars, historyVars>>

\* _smart_search returns r to query, which measures search_time and takes the
\* empty or the found branch
Finish(r) ==
    /\ search_results' = r
    /\ IF ~HasHits(r)
       THEN /\ pc' = "done"
            /\ response' = EmptyResponse(user_query, Clock(calls'), Clock(calls'))
       ELSE /\ pc' = "generating"
            /\ UNCHANGED response
    /\ UNCHANGED <<idx, raised>>

\* the "if not self.index: self.get_or_create_index()" that opens search,
\* configure_search_settings, get_index_stats and add_documents
LazyOutcomes == IF index = None THEN IndexOutcomes ELSE {"held"}

Lazy(io) ==
    IF io = "held"
    THEN [index |-> index, raised |-> FALSE, pre |-> <<>>]
    ELSE [index |-> get_or_create_index(io).index,
          raised |-> get_or_create_index(io).raised,
          pre |-> <<Call("get_or_create_index", "", 0, None,
                         IF get_or_create_index(io).raised THEN Raise ELSE Ok)>>]

\* one meilisearch_client.search(term, limit, filters) of strategy s and what
\* _smart_search does with its result; the call is logged with the answer of
\* index.search, or as raised when its get_or_create_index failed
Search(s, term) ==
    /\ pc = s
    /\ \E io \in LazyOutcomes, a \in SearchAnswers(LimitOf(s, max_results)) :
          LET call == [Call("search", term, LimitOf(s, max_results), filters, a)
                          EXCEPT !.strategy = s]
          IN  /\ index' = Lazy(io).index
              /\ IF Lazy(io).raised
                 THEN /\ calls' = (calls \o Lazy(io).pre) \o
                                  <<[call EXCEPT !.ans = Raise]>>
                      /\ pc' = "error"
                      /\ raised' = "SearchGatewayError"
                      /\ UNCHANGED <<idx, results, search_results, response>>
                 ELSE /\ calls' = (calls \o Lazy(io).pre) \o <<call>>
                      /\ IF Raises(a)
                         THEN /\ pc' = "error"
                              /\ raised' = "SearchGatewayError"
                              /\ UNCHANGED <<idx, results, search_results,
                                             response>>
                         ELSE /\ results' = a
                              /\ IF HasHits(a) \/ s = "tail"
                                 THEN Finish(a)
                                 ELSE LET n == NextPos(s, idx, user_query)
                                      IN  /\ pc' = n.pc
                                          /\ idx' = n.idx
                                          /\ UNCHANGED <<search_results,
                                                response, raised>>
    /\ UNCHANGED <<user_query, max_results, filters, op, data, setupVars,
                   gatewayVars, extractVars, historyVars>>

SearchDirect == pc = "direct" /\ Search("direct", user_query)

SearchTop == pc = "top" /\ Search("top", Terms("top", user_query)[idx])

SearchKeyTerm == pc = "key" /\ Search("key", Terms("key", user_query)[idx])

SearchCategory ==
    pc = "category" /\ Search("category", Terms("category", user_query)[idx])

SearchBusiness ==
    pc = "business" /\ Search("business", Terms("business", user_query)[idx])

\* if not results['hits']: results = search("*", ...); return results
SearchFallback ==
    /\ pc = "tail"
    /\ IF ~HasHits(results)
       THEN Search("tail", match_all)
       ELSE /\ Finish(results)
            /\ UNCHANGED <<user_query, max_results, filters, results, calls,
                           index, op, data, setupVars, gatewayVars, extractVars, historyVars>>

\* create_rag_prompt, generate_response and the assembly of the result
Generate ==
    /\ pc = "generating"
    /\ \E a \in CompletionAnswers :
          LET messages == create_rag_prompt(user_query, search_results.hits)
          IN  /\ calls' = Append(calls,
                              [Call("complete", messages[2].content, 800, None, a)
                                  EXCEPT !.temperature = QueryTemperature])
              /\ IF CompletionRaises(a)
                 THEN /\ pc' = "error"
                      /\ raised' = "CompletionGatewayError"
                      /\ UNCHANGED response
                 ELSE /\ pc' = "done"
                      /\ response' = FoundResponse(user_query, search_results,
                                        a.text, Clock(calls),
                                        Clock(calls') - Clock(calls), Clock(calls'))
                      /\ UNCHANGED raised
    /\ UNCHANGED <<user_query, max_results, filters, idx, results,
                   search_results, index, op, data, setupVars,
                   gatewayVars, extractVars, historyVars>>

\* Another query running on the same instance at the same time.  Its locals
\* are its own; of what the instance shares it reads the gateway and, in
\* search(), self.index, which it sets by get_or_create_index() when it finds
\* it unset.  A lookup that fails leaves the handle as it was.  The lookup of
\* the query observed here is one step with its search call: the handle only
\* ever goes from None to the one handle, so a lookup of the other query
\* falling between the test and the assignment gives the states that one of
\* the two orders of the whole steps gives.
OtherQuerySearch ==
    /\ op = "query"
    /\ index = None
    /\ \E io \in IndexOutcomes : index' = get_or_create_index(io).index
    /\ index' # index
    /\ UNCHANGED <<pc, queryVars, raised, calls, op, data, setupVars,
                   gatewayVars, extractVars, historyVars>>

\* the locals of an operation that is not running
IdleLocals ==
    /\ user_query = ""
    /\ max_results = 0
    /\ filters = None
    /\ idx = 1
    /\ results = Ok
    /\ search_results = Ok
    /\ response = NoResponse
    /\ raised = None
    /\ calls = <<>>
    /\ setup_result = None
    /\ stats = NoStats
    /\ documents = <<>>
    /\ batch_i = 0
    /\ wait_time = 0

\* the running operation is a setup_index that submitted documents and
\* returned True
IngestedAndReady ==
    /\ op = "setup"
    /\ pc = "done"
    /\ setup_result = "True"
    /\ \E i \in 1..Len(calls) : calls[i].op = "add_documents"

\* the caller has the response, the result or the exception; the instance is
\* idle again
Return ==
    /\ pc \in {"done", "error"}
    /\ pc' = "idle"
    /\ op' = "none"
    /\ user_query' = ""
    /\ max_results' = 0
    /\ filters' = None
    /\ idx' = 1
    /\ results' = Ok
    /\ search_results' = Ok
    /\ response' = NoResponse
    /\ raised' = None
    /\ calls' = <<>>
    /\ setup_result' = None
    /\ stats' = NoStats
    /\ documents' = <<>>
    /\ batch_i' = 0
    /\ wait_time' = 0
    /\ ingested' = (ingested \/ IngestedAndReady)
    /\ UNCHANGED <<index, data, gatewayVars, extractVars>>

(***************************************************************************)
(* Actions of setup_index, with configure_search_settings and              *)
(* add_documents.                                                          *)
(***************************************************************************)
batch_size == 100
max_wait == 30

NotLoaded == [loaded |-> FALSE, rows |-> 0]

\* a slip: health_check() answers True also when client.health() raised
health_check_always(a) == TRUE

\* health_check(): True when client.health() answered, False when it raised
health_check(a) == a.ok

\* a slip: the skip is never taken
AlreadyPopulatedNever(st) == FALSE

\* a slip: >= in place of >
AlreadyPopulatedLoose(st) == Get(st, "numberOfDocuments", 0) >= 0

\* if stats.get('numberOfDocuments', 0) > 0
AlreadyPopulated(st) == Get(st, "numberOfDocuments", 0) > 0

\* a slip: setup_index answers False where it re-raises
SetupRaiseAsFalse(e) ==
    /\ pc' = "done"
    /\ setup_result' = "False"
    /\ UNCHANGED <<raised, stats, documents, batch_i, wait_time>>

\* a slip: a dictionary without isIndexing counts as still indexing
StillIndexingByDefault(st) == Get(st, "isIndexing", TRUE)

\* stats.get('isIndexing', False) of the poll loop
StillIndexing(st) == Get(st, "isIndexing", FALSE)

\* setup_index leaves with the exception e
SetupRaise(e) ==
    /\ pc' = "error"
    /\ raised' = e
    /\ UNCHANGED setupVars

\* setup_index returns b
SetupReturn(b) ==
    /\ pc' = "done"
    /\ setup_result' = b
    /\ UNCHANGED raised

\* setup_index() is called
SetupStart ==
    /\ pc = "idle"
    /\ op' = "setup"
    /\ pc' = "health"
    /\ calls' = <<>>
    /\ UNCHANGED <<queryVars, raised, index, data, setupVars, gatewayVars,
                   extractVars, historyVars>>

\* if not self.meilisearch_client.health_check(): return False
SetupHealth ==
    /\ pc = "health"
    /\ \E a \in {Ok, Raise} :
          /\ calls' = Append(calls, Plain("health", a))
          /\ IF ~health_check(a)
             THEN /\ SetupReturn("False")
                  /\ UNCHANGED <<stats, documents, batch_i, wait_time>>
             ELSE /\ pc' = "get_index"
                  /\ UNCHANGED <<raised, setupVars>>
    /\ UNCHANGED <<queryVars, index, op, data, gatewayVars, extractVars, historyVars>>

\* self.meilisearch_client.get_or_create_index()
SetupGetIndex ==
    /\ pc = "get_index"
    /\ \E io \in IndexOutcomes :
          /\ index' = get_or_create_index(io).index
          /\ calls' = Append(calls, Plain("get_or_create_index",
                         IF get_or_create_index(io).raised THEN Raise ELSE Ok))
          /\ IF get_or_create_index(io).raised
             THEN SetupRaise("SearchGatewayError")
             ELSE /\ pc' = "searchable"
                  /\ UNCHANGED <<raised, setupVars>>
    /\ UNCHANGED <<queryVars, op, data, gatewayVars, extractVars, historyVars>>

\* one index.update_*_attributes call of configure_search_settings
Configure(at, name, next) ==
    /\ pc = at
    /\ \E io \in LazyOutcomes, a \in {Ok, Raise} :
          /\ index' = Lazy(io).index
          /\ IF Lazy(io).raised
             THEN /\ calls' = calls \o Lazy(io).pre
                  /\ SetupRaise("SearchGatewayError")
             ELSE /\ calls' = (calls \o Lazy(io).pre) \o <<Plain(name, a)>>
                  /\ IF ~a.ok
                     THEN SetupRaise("SearchGatewayError")
                     ELSE /\ pc' = next
                          /\ UNCHANGED <<raised, setupVars>>
    /\ UNCHANGED <<queryVars, op, data, gatewayVars, extractVars, historyVars>>

SetupSearchable ==
    pc = "searchable" /\ Configure("searchable", "update_searchable_attributes", "filterable")

SetupFilterable ==
    pc = "filterable" /\ Configure("filterable", "update_filterable_attributes", "sortable")

\* a slip: the sortable attributes are never configured
SetupSortableSkipped ==
    /\ pc = "sortable"
    /\ pc' = "stats"
    /\ UNCHANGED <<queryVars, raised, calls, index, op, data, setupVars,
                   gatewayVars, extractVars, historyVars>>

SetupSortable ==
    pc = "sortable" /\ Configure("sortable", "update_sortable_attributes", "stats")

\* the index.get_stats() of one get_index_stats() and the dictionary returned
\* (a failing get_or_create_index is caught like a failing get_stats)
ReadStats(io, raw) ==
    IF Lazy(io).raised
    THEN [index |-> Lazy(io).index, log |-> Lazy(io).pre, stats |-> DefaultStats]
    ELSE [index |-> Lazy(io).index,
          log |-> Lazy(io).pre \o
                  <<Call("get_stats", raw.shape, 0, None,
                         IF raw.shape = "raise" THEN Raise ELSE Ok)>>,
          stats |-> get_index_stats(raw)]

\* stats = get_index_stats(); if stats.get('numberOfDocuments', 0) > 0: return True
SetupStats ==
    /\ pc = "stats"
    /\ \E io \in LazyOutcomes, raw \in StatsAnswers :
          /\ index' = ReadStats(io, raw).index
          /\ calls' = calls \o ReadStats(io, raw).log
          /\ stats' = ReadStats(io, raw).stats
          /\ IF AlreadyPopulated(ReadStats(io, raw).stats)
             THEN /\ pc' = "done"
                  /\ setup_result' = "True"
             ELSE /\ pc' = "load"
                  /\ UNCHANGED setup_result
    /\ UNCHANGED <<queryVars, raised, op, data, documents, batch_i, wait_time,
                   gatewayVars, extractVars, historyVars>>

\* the numbers of rows the data file may have: none, one full batch, and
\* DataRows, which is more than one batch
RowCounts == {0, batch_size, DataRows}

\* documents = self.data_loader.process_data(), which loads the file once
SetupLoad ==
    /\ pc = "load"
    /\ \E found \in (IF data.loaded THEN {TRUE} ELSE BOOLEAN),
          n \in (IF data.loaded THEN {data.rows} ELSE RowCounts) :
          IF ~found
          THEN /\ calls' = Append(calls, Plain("load_data", Raise))
               /\ SetupRaise("FileNotFoundError")
               /\ UNCHANGED data
          ELSE /\ calls' = IF data.loaded THEN calls
                           ELSE Append(calls, Plain("load_data", Ok))
               /\ data' = [loaded |-> TRUE, rows |-> n]
               /\ documents' = [r \in 1..n |-> r]
               /\ batch_i' = 0
               /\ pc' = IF n > 0 THEN "add_batch" ELSE "poll"
               /\ UNCHANGED <<raised, setup_result, stats, wait_time>>
    /\ UNCHANGED <<queryVars, index, op, gatewayVars, extractVars, historyVars>>

\* a slip: the slice runs one document too far
BatchInclusive(docs, i) ==
    SubSeq(docs, i + 1,
           IF i + batch_size + 1 < Len(docs) THEN i + batch_size + 1 ELSE Len(docs))

\* batch = documents[i:i + batch_size]
Batch(docs, i) ==
    SubSeq(docs, i + 1, IF i + batch_size < Len(docs) THEN i + batch_size ELSE Len(docs))

\* self.index.add_documents(batch) of the batch loop
SetupAddBatch ==
    /\ pc = "add_batch"
    /\ \E io \in LazyOutcomes, a \in {Ok, Raise} :
          LET batch == Batch(documents, batch_i)
          IN  /\ index' = Lazy(io).index
              /\ IF Lazy(io).raised
                 THEN /\ calls' = calls \o Lazy(io).pre
                      /\ SetupRaise("SearchGatewayError")
                      /\ UNCHANGED gatewayVars
                 ELSE /\ calls' = (calls \o Lazy(io).pre) \o
                           <<[Plain("add_documents", a) EXCEPT !.docs = batch]>>
                      /\ IF ~a.ok
                         THEN /\ SetupRaise("SearchGatewayError")
                              /\ UNCHANGED gatewayVars
                         ELSE /\ pending' = IF batch[Len(batch)] > pending
                                            THEN batch[Len(batch)] ELSE pending
                              /\ batch_i' = batch_i + batch_size
                              /\ pc' = IF batch_i + batch_size < Len(documents)
                                       THEN "add_batch" ELSE "poll"
                              /\ UNCHANGED <<raised, setup_result, stats,
                                             documents, wait_time,
                                             numberOfDocuments>>
    /\ UNCHANGED <<queryVars, op, data, extractVars, historyVars>>

\* one turn of "while wait_time < max_wait", and the return of add_documents
\* and of setup_index after it
SetupPoll ==
    /\ pc = "poll"
    /\ IF wait_time < max_wait
       THEN \E io \in LazyOutcomes, raw \in StatsAnswers :
               /\ index' = ReadStats(io, raw).index
               /\ calls' = calls \o ReadStats(io, raw).log
               /\ stats' = ReadStats(io, raw).stats
               /\ IF ~StillIndexing(ReadStats(io, raw).stats)
                  THEN /\ pc' = "done"
                       /\ setup_result' = "True"
                       /\ UNCHANGED wait_time
                  ELSE /\ wait_time' = wait_time + 1
                       /\ UNCHANGED <<pc, setup_result>>
       ELSE /\ pc' = "done"
            /\ setup_result' = "True"
            /\ UNCHANGED <<index, calls, stats, wait_time>>
    /\ UNCHANGED <<queryVars, raised, op, data, documents, batch_i,
                   gatewayVars, extractVars, historyVars>>

(***************************************************************************)
(* The Search Gateway indexes what was submitted, in its own time.         *)
(***************************************************************************)
IndexerStep ==
    /\ pending > 0
    /\ numberOfDocuments' =
          IF pending > numberOfDocuments THEN pending ELSE numberOfDocuments
    /\ pending' = 0
    /\ UNCHANGED <<pc, queryVars, raised, calls, index, op, data, setupVars,
                   extractVars, historyVars>>

(***************************************************************************)
(* The system: one instance, its callers and the gateways.                 *)
(***************************************************************************)
Init ==
    /\ pc = "idle"
    /\ op = "none"
    /\ IdleLocals
    /\ index = None
    /\ data = NotLoaded
    /\ numberOfDocuments \in {0, DataRows}
    /\ pending = 0
    /\ kq = ""
    /\ kt = <<>>
    /\ kt2 = <<>>
    /\ ingested = FALSE

Next ==
    \/ QueryStart
    \/ SearchDirect
    \/ SearchTop
    \/ SearchKeyTerm
    \/ SearchCategory
    \/ SearchBusiness
    \/ SearchFallback
    \/ Generate
    \/ OtherQuerySearch
    \/ SetupStart
    \/ SetupHealth
    \/ SetupGetIndex
    \/ SetupSearchable
    \/ SetupFilterable
    \/ SetupSortable
    \/ SetupStats
    \/ SetupLoad
    \/ SetupAddBatch
    \/ SetupPoll
    \/ IndexerStep
    \/ Return

Spec == Init /\ [][Next]_vars

(***************************************************************************)
(* Index setup on its own, with its scheduling: setup_index runs on one     *)
(* thread that is never suspended for good, so every turn of the poll loop *)
(* that can be taken is taken.                                             *)
(***************************************************************************)
SetupNext ==
    \/ SetupStart
    \/ SetupHealth
    \/ SetupGetIndex
    \/ SetupSearchable
    \/ SetupFilterable
    \/ SetupSortable
    \/ SetupStats
    \/ SetupLoad
    \/ SetupAddBatch
    \/ SetupPoll
    \/ IndexerStep
    \/ Return

SpecSetup == Init /\ [][SetupNext]_vars /\ WF_vars(SetupPoll)

(***************************************************************************)
(* Key-term extraction on its own: every query of at most MaxWords words   *)
(* of a vocabulary, separated and padded by whitespace.                    *)
(***************************************************************************)
ExtractWords == {"The", "top", "Laptop", "it", "ITEMS", "profit", "Max"}

ExtractQueries ==
    {pad \o Join(ws, sep) \o pad :
        ws \in UNION {[1..n -> ExtractWords] : n \in 0..MaxWords},
        sep \in {" ", " \t "}, pad \in {"", " "}}

ExtractInit ==
    /\ pc = "extract"
    /\ op = "none"
    /\ IdleLocals
    /\ index = None
    /\ data = NotLoaded
    /\ numberOfDocuments = 0
    /\ pending = 0
    /\ kq \in ExtractQueries
    /\ kt = <<>>
    /\ kt2 = <<>>
    /\ ingested = FALSE

\* key_terms = self._extract_key_terms(query)
Extract ==
    /\ pc = "extract"
    /\ kt' = _extract_key_terms(kq)
    /\ pc' = "extracted"
    /\ UNCHANGED <<queryVars, raised, calls, index, op, data, setupVars,
                   gatewayVars, kq, kt2, historyVars>>

\* the extraction applied to its own output, joined by spaces
ExtractAgain ==
    /\ pc = "extracted"
    /\ kt2' = _extract_key_terms(Join(kt, " "))
    /\ pc' = "extracted twice"
    /\ UNCHANGED <<queryVars, raised, calls, index, op, data, setupVars,
                   gatewayVars, kq, kt, historyVars>>

ExtractNext ==
    \/ Extract
    \/ ExtractAgain

SpecExtract == ExtractInit /\ [][ExtractNext]_vars

(***************************************************************************)
(* Properties.                                                             *)
(***************************************************************************)
Last(seq) == seq[Len(seq)]

\* _smart_search has returned to query
Resolved == op = "query" /\ pc \in {"generating", "done"}

\* query has returned a response
Responded == op = "query" /\ pc = "done"

SearchCalls == SelectSeq(calls, LAMBDA c : c.op = "search")

CompletionCalls == SelectSeq(calls, LAMBDA c : c.op = "complete")

\* C1: the first search call of a query carries the query verbatim, max_results
\* and the filters; when it returns at least one hit, _smart_search returns
\* exactly that result and no other search call is issued.
C1_DirectHitReturns ==
    (op = "query" /\ SearchCalls # <<>>) =>
        LET c == SearchCalls[1]
        IN  /\ c.q = user_query
            /\ c.limit = max_results
            /\ c.filters = filters
            /\ (c.ans.ok /\ c.ans.hits # <<>>) =>
                  /\ Len(SearchCalls) = 1
                  /\ pc \in {"generating", "done", "error"}
                  /\ search_results = c.ans

C1_Witness ==
    /\ op = "query"
    /\ pc = "generating"
    /\ Len(SearchCalls) = 1
    /\ SearchCalls[1].ans.hits # <<>>
    /\ search_results = SearchCalls[1].ans

\* C2: when no search call raised and every call of strategies 1-5 returned
\* zero hits, the last search call of _smart_search is "*" with max_results and
\* the caller's filters, and _smart_search returns what the gateway answered
\* to it, empty or not, without raising.
C2_ExhaustionEndsInMatchAll ==
    (op = "query"
     /\ \A i \in 1..Len(SearchCalls) :
           /\ SearchCalls[i].ans.ok
           /\ SearchCalls[i].strategy # "tail" => SearchCalls[i].ans.hits = <<>>)
    => /\ pc = "error" => CompletionCalls # <<>>
       /\ (Resolved \/ CompletionCalls # <<>>) =>
             /\ SearchCalls # <<>>
             /\ Last(SearchCalls).strategy = "tail"
             /\ Last(SearchCalls).q = "*"
             /\ Last(SearchCalls).limit = max_results
             /\ Last(SearchCalls).filters = filters
             /\ search_results = Last(SearchCalls).ans
             /\ \A i \in 1..(Len(SearchCalls) - 1) : SearchCalls[i].strategy # "tail"

C2_Witness ==
    /\ Resolved
    /\ Len(SearchCalls) > 2
    /\ Last(SearchCalls).q = "*"
    /\ Last(SearchCalls).ans.hits # <<>>
    /\ search_results = Last(SearchCalls).ans

\* C3: when _smart_search returns no hit, query returns without a Completion
\* Gateway call the placeholder answer, empty context and sources, llm_time 0
\* and zero search_stats; no other response is returned without a Completion
\* Gateway call.
C3_EmptyPathSkipsCompletion ==
    /\ (Resolved /\ search_results.hits = <<>>) =>
          /\ pc = "done"
          /\ CompletionCalls = <<>>
          /\ response.query = user_query
          /\ response.answer = Placeholder
          /\ response.context = <<>>
          /\ response.sources = <<>>
          /\ response.llm_time = 0
          /\ response.search_stats = [total_hits |-> 0, processing_time_ms |-> 0]
    /\ (Responded /\ CompletionCalls = <<>>) => search_results.hits = <<>>

C3_Witness ==
    /\ Responded
    /\ search_results.hits = <<>>
    /\ search_results.processingTimeMs > 0
    /\ response.search_time > 0
    /\ response.answer = Placeholder

\* C4: every response has as many sources as context documents, sources[i]
\* agrees with context[i] on order_id, category, sub_category, amount, profit
\* and content, and context is the hit list _smart_search returned.
C4_SourcesMirrorContext ==
    Responded =>
        /\ response.context = search_results.hits
        /\ Len(response.sources) = Len(response.context)
        /\ \A i \in 1..Len(response.context) :
              /\ response.sources[i].order_id = response.context[i].order_id
              /\ response.sources[i].category = response.context[i].category
              /\ response.sources[i].sub_category = response.context[i].sub_category
              /\ response.sources[i].amount = response.context[i].amount
              /\ response.sources[i].profit = response.context[i].profit
              /\ response.sources[i].content = response.context[i].content

C4_Witness ==
    /\ Responded
    /\ Len(response.context) = 2
    /\ response.sources[1].order_id = "O-2"
    /\ response.sources[2].order_id = "O-1"

\* C5 as claimed: the answer of a response is empty or the placeholder exactly
\* when its context is empty.
C5_AnswerEmptyIffContextEmpty ==
    Responded =>
        ((response.answer \in {"", Placeholder}) <=> (response.context = <<>>))

\* C5, amended: with an empty context the answer is the placeholder and no
\* completion was requested; with a non-empty context the answer is the text
\* of the one completion call, whatever it is (it may be empty or the
\* placeholder).
C5_AnswerIsPlaceholderOrCompletionText ==
    Responded =>
        /\ response.context = <<>> =>
              (response.answer = Placeholder /\ CompletionCalls = <<>>)
        /\ response.context # <<>> =>
              /\ Len(CompletionCalls) = 1
              /\ response.answer = CompletionCalls[1].ans.text

C5_Witness ==
    /\ Responded
    /\ response.context # <<>>
    /\ CompletionCalls[1].ans.text = ""
    /\ response.answer = ""

SetupIngests ==
    \E i \in 1..Len(calls) : calls[i].op \in {"load_data", "add_documents"}

\* C6: setup_index starts with the health check; when it fails, setup_index
\* returns False having issued no other call (no index get/create, settings,
\* stats, data load or add_documents), and the step changes neither the
\* index handle, nor the loaded data, nor the gateway.
C6_HealthFailureStopsSetup ==
    /\ [](
          (op = "setup" /\ calls # <<>>) =>
              /\ calls[1].op = "health"
              /\ ~calls[1].ans.ok =>
                    /\ Len(calls) = 1
                    /\ pc = "done"
                    /\ setup_result = "False"
                    /\ raised = None
                    /\ stats = NoStats
                    /\ documents = <<>>)
    /\ [][(pc = "health" /\ pc' # "health" /\ ~Last(calls').ans.ok) =>
              UNCHANGED <<index, data, gatewayVars>>]_vars

C6_Witness ==
    /\ op = "setup"
    /\ pc = "done"
    /\ setup_result = "False"
    /\ Len(calls) = 1
    /\ ~calls[1].ans.ok
    /\ numberOfDocuments > 0

\* C7 as claimed: when the index holds at least one document, the stats step
\* of setup_index ends in the return of True, whatever the stats call answers.
C7_PopulatedIndexAlwaysSkips ==
    [][(pc = "stats" /\ pc' # "stats" /\ numberOfDocuments >= 1) =>
          (pc' = "done" /\ setup_result' = "True")]_vars

\* C7, amended: setup_index returns True without loading the data file and
\* without add_documents exactly when the dictionary get_index_stats returns
\* reports numberOfDocuments > 0, which it does for a populated index when the
\* stats call answers with an object whose to_dict() or number_of_documents
\* carries the count; when the stats call raises or its answer has no such
\* count, the count defaults to 0 and setup_index goes on to load and ingest.
C7_SkipsWhenStatsReportDocuments ==
    [][(pc = "stats" /\ pc' # "stats") =>
          /\ Get(stats', "numberOfDocuments", 0) > 0 =>
                /\ pc' = "done"
                /\ setup_result' = "True"
                /\ raised' = None
                /\ ~SetupIngests'
                /\ UNCHANGED <<data, documents, gatewayVars>>
          /\ (Last(calls').q \in {"to_dict", "slots"} /\ numberOfDocuments >= 1) =>
                Get(stats', "numberOfDocuments", 0) = numberOfDocuments
          /\ (Last(calls').q \in {"raise", "attrs", "dict"} \/ numberOfDocuments = 0) =>
                (Get(stats', "numberOfDocuments", 0) = 0 /\ pc' = "load")]_vars

C7_Witness ==
    /\ op = "setup"
    /\ pc = "done"
    /\ setup_result = "True"
    /\ numberOfDocuments >= 1
    /\ Get(stats, "numberOfDocuments", 0) = numberOfDocuments
    /\ ~SetupIngests

WhitespaceFree(t) == \A i \in 1..Len(t) : ~IsSpace(Char(t, i))

\* C8: _extract_key_terms returns the whitespace-separated tokens of the query,
\* lowercased, in their order, without those that are stop words (whatever
\* their case) or have length <= 2; no stop word and no token of length <= 2
\* is in the output.
C8_KeyTermsAreFilteredTokens ==
    pc \in {"extracted", "extracted twice"} =>
        LET toks == Split(kq)
            low == [i \in 1..Len(toks) |-> Lower(toks[i])]
        IN  /\ \A i \in 1..Len(toks) : Len(toks[i]) > 0 /\ WhitespaceFree(toks[i])
            /\ kt = SelectSeq(low, LAMBDA t : t \notin stop_words /\ Len(t) > 2)
            /\ \A i \in 1..Len(kt) :
                  /\ kt[i] \notin stop_words
                  /\ Len(kt[i]) > 2
                  /\ kt[i] = Lower(kt[i])

C8_Witness ==
    /\ pc = "extracted"
    /\ kq = " The \t Laptop "
    /\ kt = <<"laptop">>

\* C9: extracting the key terms of the space-joined key terms of a query gives
\* the same list again.
C9_ExtractionIdempotent == pc = "extracted twice" => kt2 = kt

C9_Witness ==
    /\ pc = "extracted twice"
    /\ Len(Split(kq)) = 2
    /\ Len(kt) = 1
    /\ kt2 = kt

\* C10: a search call that raises is the last gateway call of its query: the
\* query ends with that error and no response, no search call and no
\* completion call follows, and the call is not issued again.
C10_SearchErrorAbortsQuery ==
    op = "query" =>
        \A i \in 1..Len(calls) :
            (calls[i].op = "search" /\ ~calls[i].ans.ok) =>
                /\ i = Len(calls)
                /\ pc = "error"
                /\ raised = "SearchGatewayError"
                /\ response = NoResponse
                /\ CompletionCalls = <<>>

C10_Witness ==
    /\ op = "query"
    /\ pc = "error"
    /\ Len(SearchCalls) = 3
    /\ ~Last(SearchCalls).ans.ok
    /\ Last(SearchCalls).strategy = "key"

\* the first call of the running operation that raised, 0 when none did
FirstRaise ==
    IF \E i \in 1..Len(calls) : ~calls[i].ans.ok
    THEN CHOOSE i \in 1..Len(calls) :
            ~calls[i].ans.ok /\ \A j \in 1..(i - 1) : calls[j].ans.ok
    ELSE 0

\* C11: when a call of the search phase or the completion call of a query
\* raises, the query ends in error with that exception for the caller and no
\* response, not even a partial one; no call is answered after the exception
\* (the log ends with the raising call, or with the search() invocation the
\* raising handle lookup belonged to); and a query ends in error only so.
C11_ExceptionEndsQuery ==
    op = "query" =>
        /\ FirstRaise # 0 =>
              /\ pc = "error"
              /\ response = NoResponse
              /\ raised = (IF calls[FirstRaise].op = "complete"
                           THEN "CompletionGatewayError" ELSE "SearchGatewayError")
              /\ \A j \in (FirstRaise + 1)..Len(calls) : ~calls[j].ans.ok
              /\ FirstRaise >= Len(calls) - 1
              /\ FirstRaise = Len(calls) - 1 =>
                    /\ calls[FirstRaise].op = "get_or_create_index"
                    /\ Last(calls).op = "search"
              /\ Len(CompletionCalls) <= 1
              /\ CompletionCalls # <<>> => Last(calls).op = "complete"
        /\ pc = "error" => FirstRaise # 0
        /\ pc # "error" => (raised = None /\ FirstRaise = 0)

C11_Witness ==
    /\ op = "query"
    /\ pc = "error"
    /\ raised = "CompletionGatewayError"
    /\ Len(SearchCalls) >= 2
    /\ Last(calls).op = "complete"
    /\ ~Last(calls).ans.ok
    /\ search_results.hits # <<>>
    /\ response = NoResponse

\* the calls of setup_index whose failure setup_index re-raises
RaisingSetupCalls ==
    {"get_or_create_index", "update_searchable_attributes",
     "update_filterable_attributes", "update_sortable_attributes",
     "add_documents", "load_data"}

\* C12 as claimed: setup_index never ends with an error of the Search Gateway.
C12_SetupNeverRaisesOnGateway ==
    op = "setup" => raised # "SearchGatewayError"

\* C12, amended: setup_index returns False exactly when the health check
\* fails.  After a health check that passed, a failure of the gateway at index
\* get/create, at one of the three settings updates or at a batch submission
\* leaves setup_index with the gateway's exception and no boolean result; only
\* a failing stats read is absorbed.
C12_SetupRaisesAfterHealthCheck ==
    op = "setup" =>
        /\ setup_result = "False" <=> (calls # <<>> /\ ~calls[1].ans.ok)
        /\ \A i \in 1..Len(calls) :
              (~calls[i].ans.ok /\ calls[i].op \in RaisingSetupCalls) =>
                  /\ i = Len(calls)
                  /\ pc = "error"
                  /\ setup_result = None
                  /\ raised = (IF calls[i].op = "load_data"
                               THEN "FileNotFoundError" ELSE "SearchGatewayError")
        /\ pc = "error" =>
              (~Last(calls).ans.ok /\ Last(calls).op \in RaisingSetupCalls)
        /\ pc # "error" => raised = None

C12_Witness ==
    /\ op = "setup"
    /\ pc = "error"
    /\ raised = "SearchGatewayError"
    /\ setup_result = None
    /\ calls[1].op = "health"
    /\ calls[1].ans.ok
    /\ Last(calls).op = "add_documents"
    /\ Len(Last(calls).docs) = DataRows - batch_size

\* the step read the index stats and the read failed
StatsReadFailed == Last(calls').op = "get_stats" /\ ~Last(calls').ans.ok

\* C13: get_index_stats never raises: a stats call that fails, or answers
\* with a value it cannot read the counts from, gives the default dictionary
\* with numberOfDocuments 0; setup_index then does not fail but goes on to
\* load and ingest as for an empty index, and the poll-wait of add_documents
\* takes it as indexing finished.
C13_StatsFailureGivesDefaults ==
    /\ [](op = "setup" /\ pc = "error" => Last(calls).op # "get_stats")
    /\ [][(pc = "stats" /\ calls' # calls /\ calls' # <<>>
           /\ (StatsReadFailed \/ Last(calls').q = "dict")) =>
              /\ stats' = DefaultStats
              /\ stats'.numberOfDocuments = 0
              /\ raised' = None
              /\ pc' = "load"
              /\ setup_result' = None]_vars
    /\ [][(pc = "poll" /\ calls' # calls /\ calls' # <<>> /\ StatsReadFailed) =>
              /\ stats' = DefaultStats
              /\ raised' = None
              /\ pc' = "done"
              /\ setup_result' = "True"]_vars

C13_Witness ==
    /\ op = "setup"
    /\ pc = "load"
    /\ Last(calls).op = "get_stats"
    /\ ~Last(calls).ans.ok
    /\ stats = DefaultStats
    /\ numberOfDocuments > 0
    /\ raised = None

\* the (query string, limit, filters) of a search call
Sent(q, limit, f) == [q |-> q, limit |-> limit, filters |-> f]

\* the canonical sequence of search calls of one resolve
CanonicalSearches(query, mr, f) ==
    LET ql == Lower(query)
        each(terms, limit) == [i \in 1..Len(terms) |-> Sent(terms[i], limit, f)]
        mentioned(terms) == SelectSeq(terms, LAMBDA t : Contains(Lower(t), ql))
    IN  <<Sent(query, mr, f)>>
        \o (IF Contains("top", ql)
            THEN each(<<"order", "item", "amount", "profit", "Furniture",
                        "Electronics", "Clothing">>, 2 * mr)
            ELSE <<>>)
        \o each(_extract_key_terms(query), mr)
        \o each(mentioned(<<"Electronics", "Furniture", "Clothing">>), mr)
        \o each(mentioned(<<"profit", "amount", "order", "item", "Furniture",
                            "Electronics", "Clothing">>), mr)
        \o <<Sent("*", mr, f)>>

\* the canonical sequences of the queries, limits and filters callers pass
CanonicalTable ==
    [q \in Queries, mr \in (1..MaxResultsArg) \cup {MAX_SEARCH_RESULTS},
     f \in Filters |-> CanonicalSearches(q, mr, f)]

\* C14: the search calls of one resolve, as (query string, limit, filters),
\* are a prefix of the canonical sequence, every call with the caller's
\* filters; every call but the last returned zero hits; and the resolve
\* returns at the first call with a hit or, with none, after "*".
C14_SearchCallsArePrefixOfCanonical ==
    op = "query" =>
        LET canon == CanonicalTable[user_query, max_results, filters]
            n == Len(SearchCalls)
        IN  /\ n <= Len(canon)
            /\ \A i \in 1..n :
                  /\ Sent(SearchCalls[i].q, SearchCalls[i].limit,
                          SearchCalls[i].filters) = canon[i]
                  /\ SearchCalls[i].filters = filters
                  /\ i < n => (SearchCalls[i].ans.ok /\ SearchCalls[i].ans.hits = <<>>)
            /\ Resolved =>
                  /\ n >= 1
                  /\ Last(SearchCalls).ans.ok
                  /\ (Last(SearchCalls).ans.hits # <<>> \/ n = Len(canon))
                  /\ search_results = Last(SearchCalls).ans
            /\ (pc \in {"top", "key", "category", "business", "tail"}) =>
                  /\ n < Len(canon)
                  /\ n >= 1
                  /\ Last(SearchCalls).ans.ok
                  /\ Last(SearchCalls).ans.hits = <<>>

C14_Witness ==
    /\ Resolved
    /\ user_query = "TOP Electronics order"
    /\ filters = "category = Furniture"
    /\ Len(SearchCalls) = 14
    /\ SearchCalls[8].limit = 2 * max_results
    /\ SearchCalls[9].q = "electronics"
    /\ SearchCalls[11].q = "Electronics"
    /\ SearchCalls[12].q = "order"
    /\ Last(SearchCalls).q = "*"

\* "top" is one of the whitespace-separated tokens of the query, whatever its case
TopIsToken(query) ==
    \E i \in 1..Len(Split(query)) : Lower(Split(query)[i]) = "top"

TopTokenTable == [q \in Queries |-> TopIsToken(q)]

\* C15 as claimed: a query issues search calls of strategy 2 (the fixed terms
\* with limit 2 * max_results) exactly when its direct search returned zero
\* hits and "top" is a token of the query; a query with "top" only inside a
\* longer word issues none.
C15_TopOnlyAsToken ==
    op = "query" =>
        /\ (\E i \in 1..Len(SearchCalls) : SearchCalls[i].strategy = "top") =>
              /\ TopTokenTable[user_query]
              /\ SearchCalls[1].ans.ok
              /\ SearchCalls[1].ans.hits = <<>>
        /\ (Len(SearchCalls) >= 2 /\ TopTokenTable[user_query]) =>
              /\ SearchCalls[2].strategy = "top"
              /\ SearchCalls[2].limit = 2 * max_results

\* the search calls strategy s of the running resolve has issued
CallsOf(s) == Cardinality({i \in 1..Len(SearchCalls) : SearchCalls[i].strategy = s})

\* |key_terms| of the queries callers ask
KeyTermCount == [q \in Queries |-> Len(_extract_key_terms(q))]

\* C16 as claimed: one resolve issues at most 1 + 7 + |key_terms| + 3 + 4 + 1
\* search calls, at most 4 of them business-term calls.
C16_AtMostFourBusinessCalls ==
    op = "query" =>
        /\ Len(SearchCalls) <= 1 + 7 + KeyTermCount[user_query] + 3 + 4 + 1
        /\ CallsOf("business") <= 4

\* C16, amended: one resolve issues at most 1 direct call, 7 strategy-2
\* calls, one call per key term, 3 category calls, 7 business-term calls (the
\* list has seven terms, the three categories among them) and 1 match-all
\* call, so at most 1 + 7 + |key_terms| + 3 + 7 + 1 search calls.
C16_SearchCallsBounded ==
    op = "query" =>
        /\ CallsOf("direct") <= 1
        /\ CallsOf("top") <= 7
        /\ CallsOf("key") <= KeyTermCount[user_query]
        /\ CallsOf("category") <= 3
        /\ CallsOf("business") <= 7
        /\ CallsOf("tail") <= 1
        /\ Len(SearchCalls) <= 1 + 7 + KeyTermCount[user_query] + 3 + 7 + 1

C16_Witness ==
    /\ Resolved
    /\ KeyTermCount[user_query] = 7
    /\ CallsOf("business") = 7
    /\ CallsOf("category") = 3
    /\ CallsOf("top") = 7
    /\ Len(SearchCalls) = 1 + 7 + 7 + 3 + 7 + 1

\* the query has "top" in it, in any case
TopTable == [q \in Queries |-> Contains("top", Lower(q))]

\* C17: a query containing "top" whose direct search returned zero hits goes
\* on with the generic terms order, item, amount, profit, Furniture,
\* Electronics, Clothing, in this order and with limit 2 * max_results; the
\* first of them that returns hits ends the resolve, which returns that
\* result (not the direct one) and issues no call of a later strategy.
C17_TopQueryReturnsFirstGenericHit ==
    op = "query" =>
        LET generic == <<"order", "item", "amount", "profit", "Furniture",
                         "Electronics", "Clothing">>
        IN  /\ (TopTable[user_query] /\ Len(SearchCalls) >= 2) =>
                  /\ SearchCalls[1].ans.hits = <<>>
                  /\ SearchCalls[2].strategy = "top"
            /\ \A i \in 1..Len(SearchCalls) :
                  SearchCalls[i].strategy = "top" =>
                      /\ i - 1 \in 1..Len(generic)
                      /\ SearchCalls[i].q = generic[i - 1]
                      /\ SearchCalls[i].limit = 2 * max_results
                      /\ SearchCalls[i].filters = filters
                      /\ \A j \in 1..(i - 1) : SearchCalls[j].ans.hits = <<>>
                      /\ (SearchCalls[i].ans.ok /\ SearchCalls[i].ans.hits # <<>>) =>
                            /\ i = Len(SearchCalls)
                            /\ pc \in {"generating", "done", "error"}
                            /\ search_results = SearchCalls[i].ans
                            /\ search_results # SearchCalls[1].ans
                            /\ CallsOf("key") + CallsOf("category")
                                  + CallsOf("business") + CallsOf("tail") = 0

C17_Witness ==
    /\ Resolved
    /\ user_query = "top selling items"
    /\ max_results = 1
    /\ Len(SearchCalls) = 4
    /\ Last(SearchCalls).q = "amount"
    /\ Len(search_results.hits) = 2
    /\ search_results = Last(SearchCalls).ans

\* the states of the per-query state machine
Phase(at) ==
    CASE at \in {"direct", "top", "key", "category", "business", "tail"} -> "SEARCHING"
      [] at = "generating" -> "GENERATING"
      [] at = "done" -> "DONE"
      [] at = "error" -> "ERROR"
      [] OTHER -> "START"

\* C18: a query runs START -> SEARCHING -> DONE with an empty result, or
\* START -> SEARCHING -> GENERATING -> DONE with a found one (an exception
\* leaves SEARCHING or GENERATING for the error state), never back; on the
\* found path the Completion Gateway is called exactly once, after every
\* search call and as the last call of the query, with temperature 0.3 and
\* max_tokens 800; on the empty path it is not called.
C18_QueryStateMachine ==
    /\ [](op = "query" =>
            /\ Phase(pc) \in {"SEARCHING", "GENERATING", "DONE", "ERROR"}
            /\ Len(CompletionCalls) <= 1
            /\ \A i \in 1..Len(calls) :
                  calls[i].op = "complete" =>
                      /\ i = Len(calls)
                      /\ calls[i].temperature = "0.3"
                      /\ calls[i].limit = 800
                      /\ SearchCalls # <<>>
                      /\ Phase(pc) \in {"DONE", "ERROR"}
            /\ Phase(pc) = "GENERATING" => search_results.hits # <<>>
            /\ Phase(pc) = "DONE" =>
                  (Len(CompletionCalls) = 1 <=> search_results.hits # <<>>))
    /\ [][(op = "query" /\ pc' # pc) =>
              CASE Phase(pc) = "SEARCHING" ->
                      Phase(pc') \in {"SEARCHING", "GENERATING", "DONE", "ERROR"}
                [] Phase(pc) = "GENERATING" ->
                      /\ Phase(pc') \in {"DONE", "ERROR"}
                      /\ Len(calls') = Len(calls) + 1
                      /\ Last(calls').op = "complete"
                [] OTHER -> Phase(pc') = "START"]_vars
    /\ [][(op = "query" /\ Phase(pc) = "SEARCHING" /\ Phase(pc') = "DONE") =>
              (search_results'.hits = <<>> /\ calls' # calls)]_vars
    /\ [][(op' = "query" /\ op # "query") =>
              (Phase(pc) = "START" /\ Phase(pc') = "SEARCHING")]_vars

C18_Witness ==
    /\ Responded
    /\ search_results.hits # <<>>
    /\ Len(SearchCalls) >= 3
    /\ Len(CompletionCalls) = 1
    /\ Last(calls).op = "complete"
    /\ Last(calls).temperature = "0.3"
    /\ Last(calls).limit = 800
    /\ Last(calls).ans.text # ""

\* the stats reads of the poll loop: those after the last batch submission
PollReads ==
    Cardinality({i \in 1..Len(calls) :
                    /\ calls[i].op = "get_stats"
                    /\ \E j \in 1..(i - 1) : calls[j].op = "add_documents"})

\* C19: the poll-wait of add_documents reads the index stats at most max_wait
\* = 30 times; a read that does not report isIndexing true, a failed read
\* among them, ends the wait at once; after 30 reads that all report indexing
\* the wait ends too; in every case add_documents returns True without an
\* error and setup_index returns True; and the wait always ends.
C19_PollWaitTerminates ==
    /\ [](op = "setup" =>
            /\ wait_time <= max_wait
            /\ PollReads <= max_wait
            /\ pc = "poll" => (PollReads = wait_time /\ raised = None)
            /\ (pc = "done" /\ PollReads > 0) => setup_result = "True")
    /\ [][(pc = "poll" /\ calls' # calls) =>
              /\ wait_time < max_wait
              /\ IF StatsReadFailed \/ ~Get(stats', "isIndexing", FALSE)
                 THEN /\ pc' = "done"
                      /\ setup_result' = "True"
                      /\ raised' = None
                 ELSE /\ pc' = "poll"
                      /\ wait_time' = wait_time + 1]_vars
    /\ [][(pc = "poll" /\ pc' # "poll" /\ calls' = calls) =>
              /\ wait_time = max_wait
              /\ pc' = "done"
              /\ setup_result' = "True"
              /\ raised' = None]_vars
    /\ ((op = "setup" /\ pc = "poll") ~>
            (op = "setup" /\ pc = "done" /\ setup_result = "True"))

C19_Witness ==
    /\ op = "setup"
    /\ pc = "done"
    /\ setup_result = "True"
    /\ wait_time = max_wait
    /\ PollReads = max_wait
    /\ pending > 0
    /\ Get(stats, "isIndexing", FALSE)

\* the batch submissions of the running setup_index, in order
AddCalls == SelectSeq(calls, LAMBDA c : c.op = "add_documents")

\* the documents of the first k submissions, one after the other
RECURSIVE Submitted(_)
Submitted(k) == IF k = 0 THEN <<>> ELSE Submitted(k - 1) \o AddCalls[k].docs

\* C20: add_documents submits the documents in batches of at most 100, all
\* but the last of exactly 100, that put one after the other are the
\* document list in its order; with n documents there are ceil(n/100)
\* batches, all submitted before the first stats read of the poll-wait; a
\* submission that raises ends setup_index with that error and is the last.
C20_BatchesPartitionDocuments ==
    op = "setup" =>
        LET n == Len(documents)
            m == Len(AddCalls)
        IN  /\ \A k \in 1..m :
                  /\ Len(AddCalls[k].docs) \in 1..100
                  /\ k < m => (Len(AddCalls[k].docs) = 100 /\ AddCalls[k].ans.ok)
                  /\ ~AddCalls[k].ans.ok =>
                        (pc = "error" /\ raised = "SearchGatewayError"
                         /\ Last(calls) = AddCalls[k])
            /\ Len(Submitted(m)) <= n
            /\ Submitted(m) = SubSeq(documents, 1, Len(Submitted(m)))
            /\ m <= (n + 99) \div 100
            /\ (pc = "poll" \/ PollReads > 0 \/ (pc = "done" /\ data.loaded
                                                  /\ setup_result = "True"
                                                  /\ documents # <<>>)) =>
                  /\ m = (n + 99) \div 100
                  /\ Submitted(m) = documents
                  /\ \A k \in 1..m : AddCalls[k].ans.ok
            /\ \A i, j \in 1..Len(calls) :
                  (i < j /\ calls[i].op = "add_documents"
                   /\ calls[j].op = "add_documents") =>
                      \A x \in i..j : calls[x].op = "add_documents"

C20_Witness ==
    /\ op = "setup"
    /\ pc = "poll"
    /\ PollReads > 0
    /\ Len(documents) = DataRows
    /\ Len(AddCalls) = 2
    /\ Len(AddCalls[1].docs) = batch_size
    /\ Len(AddCalls[2].docs) = DataRows - batch_size
    /\ AddCalls[1].docs \o AddCalls[2].docs = documents

\* C21 as claimed: once a setup_index run has ingested and returned True, a
\* later run whose gateway calls all succeed submits no documents.
C21_NoReingestionAfterIngest ==
    (op = "setup" /\ ingested /\ \A i \in 1..Len(calls) : calls[i].ans.ok)
        => ~SetupIngests

\* C21, amended: after a setup_index run that ingested and returned True the
\* gateway holds the documents or is still indexing them, and a later run
\* skips ingestion exactly when its stats read reports numberOfDocuments > 0:
\* when the gateway has finished indexing and the stats answer carries the
\* count.  While the documents are still being indexed (the count is 0), or
\* when the stats answer carries no numberOfDocuments, the later run loads
\* the data and submits every batch again.
C21_SkipsOnceStatsReportDocuments ==
    /\ [](ingested =>
            /\ data.loaded
            /\ data.rows > 0
            /\ (pending >= data.rows \/ numberOfDocuments >= data.rows))
    /\ [][(ingested /\ pc = "stats" /\ pc' # "stats") =>
              IF numberOfDocuments > 0 /\ Last(calls').q \in {"to_dict", "slots"}
              THEN /\ pc' = "done"
                   /\ setup_result' = "True"
                   /\ ~SetupIngests'
                   /\ UNCHANGED <<data, gatewayVars>>
              ELSE /\ pc' = "load"
                   /\ Get(stats', "numberOfDocuments", 0) = 0]_vars
    /\ [][(ingested /\ pc = "load" /\ pc' # "load") =>
              (pc' = "add_batch" /\ Len(documents') = data.rows)]_vars

C21_Witness ==
    /\ op = "setup"
    /\ ingested
    /\ pc = "done"
    /\ setup_result = "True"
    /\ ~SetupIngests
    /\ data.rows = DataRows
    /\ numberOfDocuments = DataRows
    /\ pending = 0

\* the calls every setup_index run starts with, in order
SetupPrologue ==
    <<"health", "get_or_create_index", "update_searchable_attributes",
      "update_filterable_attributes", "update_sortable_attributes", "get_stats">>

\* C22: the calls of a setup_index run are, in order, the health check, the
\* index get/create, the searchable, filterable and sortable settings and the
\* stats read, each issued only after the one before it succeeded; the data
\* load and the batch submissions come only after the stats read, and only
\* when it reported no documents; a run that returns True has issued all
\* three settings calls, also when it skipped ingestion.
C22_SetupCallOrder ==
    /\ [](op = "setup" =>
            /\ \A i \in 1..Len(calls) :
                  /\ i <= Len(SetupPrologue) => calls[i].op = SetupPrologue[i]
                  /\ i > Len(SetupPrologue) =>
                        calls[i].op \in {"load_data", "add_documents", "get_stats"}
                  /\ (i < Len(calls) /\ i < Len(SetupPrologue)) => calls[i].ans.ok
                  /\ calls[i].op = "load_data" => i = Len(SetupPrologue) + 1
            /\ (pc = "done" /\ setup_result = "True") =>
                  /\ Len(calls) >= Len(SetupPrologue)
                  /\ \A i \in 1..(Len(SetupPrologue) - 1) : calls[i].ans.ok
            /\ pc \in {"load", "add_batch", "poll"} =>
                  Len(calls) >= Len(SetupPrologue))
    /\ [][(pc = "stats" /\ pc' # "stats") =>
              /\ Len(calls') = Len(SetupPrologue)
              /\ pc' = "load" <=> Get(stats', "numberOfDocuments", 0) = 0
              /\ pc' \in {"load", "done"}]_vars

C22_Witness ==
    /\ op = "setup"
    /\ pc = "done"
    /\ setup_result = "True"
    /\ numberOfDocuments > 0
    /\ Len(calls) = Len(SetupPrologue)
    /\ calls[3].op = "update_searchable_attributes"
    /\ calls[5].op = "update_sortable_attributes"
    /\ calls[5].ans.ok
    /\ Get(stats, "numberOfDocuments", 0) > 0

\* a response without its measured times
Timeless(r) == [r EXCEPT !.search_time = 0, !.llm_time = 0, !.total_time = 0]

\* the response query gives for the answers its own calls received
ResponseAlone ==
    LET sr == Last(SearchCalls).ans
    IN  IF sr.hits = <<>>
        THEN EmptyResponse(user_query, 0, 0)
        ELSE FoundResponse(user_query, sr, Last(CompletionCalls).ans.text, 0, 0, 0)

\* a step of the running query itself
QueryStep == op = "query" /\ (pc' # pc \/ calls' # calls)

=============================================================================
